---- MODULE Spec2Model ----
(***************************************************************************)
(* Documentation providers of skript-doc-bot (src/src/providers.py).        *)
(*                                                                         *)
(* Four components are modelled, each with its own specification:          *)
(*   SpecCombined  CombinedDocumentationProvider.perform_search            *)
(*   SpecCache     SkriptLangDocumentationProvider.perform_search          *)
(*   SpecEnrich    prepare_element_for_display of the four adapters        *)
(*   SpecMc        SkriptMcDocumentationProvider.perform_search            *)
(* The variables of a component keep their idle value under the other      *)
(* components' specifications.                                             *)
(***************************************************************************)
EXTENDS Integers, Sequences, FiniteSets, TLC

(***************************************************************************)
(* Bounds of the model.                                                    *)
(***************************************************************************)
\* Longest list of member providers given to the combined provider.
MaxProviders == 2
\* Longest result sequence one member returns.
MaxResults == 3
\* Number of distinct detailed_name values.
NumKeys == 3
\* constants.MAX_SELECT_OPTION_COUNT is imported (providers.py line 12) from a
\* module whose text is not part of the sources; perform_search is
\* parametric in it and the model takes a small value for it.
MAX_SELECT_OPTION_COUNT == 2

\* Python's Optional: None is the empty set, a value x is Some(x).
None == {}
Some(x) == {x}
The(o) == CHOOSE x \in o : TRUE

Keys == 1..NumKeys

Min(a, b) == IF a <= b THEN a ELSE b
Max(a, b) == IF a >= b THEN a ELSE b

\* Sequences over S of length at most n.
SeqUpTo(S, n) == UNION {[1..k -> S] : k \in 0..n}

(***************************************************************************)
(* The state                                                               *)
(***************************************************************************)
\* CombinedDocumentationProvider.perform_search
VARIABLES
    providers,            \* self.providers: only its length matters here
    cpc,                  \* position in perform_search
    provider,             \* index of the for loop over self.providers
    results,              \* results of the member being folded
    resultIdx,            \* index of the inner for loop over results
    elements,             \* the accumulator
    discovered_elements,  \* keys of the dict discovered_elements
    returned,             \* value returned by perform_search, None before
    logged,               \* members for which logging.error was called
    invoked,              \* history: members whose perform_search was awaited
    succeeded,            \* history: members whose perform_search returned
    merged                \* history: first occurrences, in reading order

\* SkriptLangDocumentationProvider
VARIABLES
    now,                \* datetime.now()
    all_elements,       \* self.all_elements: None, or the corpus of a fetch
    last_request_time,  \* self.last_request_time
    lpc,                \* "idle", or "fetching" while _get_all_elements is awaited
    searchStart,        \* time at which the search in progress or last search started
    searchOutcome,      \* "none", "returned" or "raised": how the last search ended
    ranked,             \* the corpus the last returning search ranked
    fetchCount,         \* history: number of corpus fetches issued
    searchCount,        \* history: number of searches started
    lastFetchAt         \* history: time at which the last fetch was issued

\* a SyntaxElement and the calls of prepare_element_for_display
VARIABLES
    element,      \* the SyntaxElement: its provider and its examples
    requests,     \* history: number of backend requests issued
    calls,        \* history: number of prepare_element_for_display calls
    lastCall      \* history: the last call, None before the first

\* SkriptMcDocumentationProvider
VARIABLES
    syntaxes,     \* self.syntaxes: the names of the corpus elements
    query,        \* options.query
    mpc,          \* "call" before perform_search, "done" after
    best          \* None, or the returned list, as indices into syntaxes

combinedVars == <<providers, cpc, provider, results, resultIdx, elements,
                  discovered_elements, returned, logged, invoked, succeeded,
                  merged>>

cacheVars == <<now, all_elements, last_request_time, lpc, searchStart,
               searchOutcome, ranked, fetchCount, searchCount, lastFetchAt>>

enrichVars == <<element, requests, calls, lastCall>>

mcVars == <<syntaxes, query, mpc, best>>

vars == <<combinedVars, cacheVars, enrichVars, mcVars>>
otherThanCombined == <<cacheVars, enrichVars, mcVars>>
otherThanCache == <<combinedVars, enrichVars, mcVars>>
otherThanEnrich == <<combinedVars, cacheVars, mcVars>>
otherThanMc == <<combinedVars, cacheVars, enrichVars>>

(***************************************************************************)
(* CombinedDocumentationProvider                                           *)
(***************************************************************************)

\* A SyntaxElement as the combined provider sees it: its detailed_name, and
\* the member and position it came from (its identity).
Element(k, m, p) == [detailed_name |-> k, member |-> m, pos |-> p]

\* What a member's perform_search can do: return a sequence, or raise one of
\* the exceptions the adapters raise (all subclasses of Exception).
ExceptionClasses == {"HTTPStatusError", "TimeoutException", "KeyError", "JSONDecodeError"}

\* The result sequence of member m whose elements have keys ks.
ResultsOf(m, ks) == [p \in 1..Len(ks) |-> Element(ks[p], m, p)]

\* except Exception (line 411): every exception class above is caught.
CaughtOnlyHttp(exc) == exc \in {"HTTPStatusError", "TimeoutException"}
Caught(exc) == exc \in ExceptionClasses

\* len(elements) >= MAX_SELECT_OPTION_COUNT (line 402)
CapExceeded(elems) == Len(elems) > MAX_SELECT_OPTION_COUNT
CapReached(elems) == Len(elems) >= MAX_SELECT_OPTION_COUNT

\* Python's seq[:k]
PySliceTo(s, k) ==
    IF k >= 0 THEN SubSeq(s, 1, Min(k, Len(s)))
    ELSE SubSeq(s, 1, Max(Len(s) + k, 0))

\* elements[: MAX_SELECT_OPTION_COUNT - 1] (line 415)
TruncateToMax(elems) == PySliceTo(elems, MAX_SELECT_OPTION_COUNT)
Truncate(elems) == PySliceTo(elems, MAX_SELECT_OPTION_COUNT - 1)

\* result.detailed_name not in discovered_elements (line 408)
AlwaysNew(result, discovered) == TRUE
IsNew(result, discovered) == result.detailed_name \notin discovered

\* elements.append(result) (line 410)
Prepend(elems, result) == <<result>> \o elems
AppendElement(elems, result) == Append(elems, result)

\* The first occurrences of keys not yet claimed, in the order of rs: the
\* elements a member's results add under first-claim deduplication.
FirstClaims(rs, claimed) ==
    LET keep(p) == /\ rs[p].detailed_name \notin claimed
                   /\ \A q \in 1..(p-1) : rs[q].detailed_name # rs[p].detailed_name
        F[p \in 0..Len(rs)] ==
            IF p = 0 THEN <<>>
            ELSE IF keep(p) THEN Append(F[p-1], rs[p]) ELSE F[p-1]
    IN F[Len(rs)]

KeysOf(s) == {s[i].detailed_name : i \in 1..Len(s)}

CombinedIdle ==
    /\ providers = 0
    /\ cpc = "idle"
    /\ provider = 0
    /\ results = <<>>
    /\ resultIdx = 0
    /\ elements = <<>>
    /\ discovered_elements = {}
    /\ returned = None
    /\ logged = {}
    /\ invoked = {}
    /\ succeeded = {}
    /\ merged = <<>>

\* perform_search is entered (lines 399-400) on a provider built with any
\* list of members.
CombinedStart ==
    /\ providers \in 0..MaxProviders
    /\ cpc = "loop"
    /\ provider = 1
    /\ results = <<>>
    /\ resultIdx = 0
    /\ elements = <<>>
    /\ discovered_elements = {}
    /\ returned = None
    /\ logged = {}
    /\ invoked = {}
    /\ succeeded = {}
    /\ merged = <<>>

\* Lines 401-406, the member returns: the cap is not reached, the member's
\* perform_search is awaited and returns a sequence.
MemberReturns ==
    /\ cpc = "loop"
    /\ provider <= providers
    /\ ~CapReached(elements)
    /\ \E ks \in SeqUpTo(Keys, MaxResults) :
        /\ results' = ResultsOf(provider, ks)
        /\ merged' = merged \o FirstClaims(ResultsOf(provider, ks), KeysOf(merged))
    /\ resultIdx' = 1
    /\ cpc' = "fold"
    /\ invoked' = invoked \cup {provider}
    /\ succeeded' = succeeded \cup {provider}
    /\ UNCHANGED <<providers, provider, elements, discovered_elements, returned, logged>>
    /\ UNCHANGED otherThanCombined

\* Lines 401-406 and 411-414, the member raises: the exception is caught and
\* logged and the loop goes on, or it leaves perform_search.
MemberRaises ==
    /\ cpc = "loop"
    /\ provider <= providers
    /\ ~CapReached(elements)
    /\ \E exc \in ExceptionClasses :
        IF Caught(exc)
        THEN /\ logged' = logged \cup {provider}
             /\ provider' = provider + 1
             /\ cpc' = "loop"
        ELSE /\ cpc' = "raised"
             /\ UNCHANGED <<logged, provider>>
    /\ invoked' = invoked \cup {provider}
    /\ UNCHANGED <<providers, results, resultIdx, elements, discovered_elements,
                   returned, succeeded, merged>>
    /\ UNCHANGED otherThanCombined

\* Lines 407-410: one round of the loop over results.
FoldResult ==
    /\ cpc = "fold"
    /\ resultIdx <= Len(results)
    /\ LET result == results[resultIdx] IN
        IF IsNew(result, discovered_elements)
        THEN /\ discovered_elements' = discovered_elements \cup {result.detailed_name}
             /\ elements' = AppendElement(elements, result)
        ELSE UNCHANGED <<discovered_elements, elements>>
    /\ resultIdx' = resultIdx + 1
    /\ UNCHANGED <<providers, cpc, provider, results, returned, logged, invoked,
                   succeeded, merged>>
    /\ UNCHANGED otherThanCombined

\* The loop over results is exhausted: next member.
FoldDone ==
    /\ cpc = "fold"
    /\ resultIdx > Len(results)
    /\ provider' = provider + 1
    /\ cpc' = "loop"
    /\ UNCHANGED <<providers, results, resultIdx, elements, discovered_elements,
                   returned, logged, invoked, succeeded, merged>>
    /\ UNCHANGED otherThanCombined

\* Lines 402-403 and 415: the members are exhausted or the cap is reached.
Return ==
    /\ cpc = "loop"
    /\ (provider > providers \/ CapReached(elements))
    /\ returned' = Some(Truncate(elements))
    /\ cpc' = "done"
    /\ UNCHANGED <<providers, provider, results, resultIdx, elements,
                   discovered_elements, logged, invoked, succeeded, merged>>
    /\ UNCHANGED otherThanCombined

NextCombined ==
    \/ MemberReturns
    \/ MemberRaises
    \/ FoldResult
    \/ FoldDone
    \/ Return

(***************************************************************************)
(* SkriptLangDocumentationProvider: the cached corpus                      *)
(***************************************************************************)
\* The clock counts ticks; TicksPerHour of them make timedelta(hours=1).
TicksPerHour == 2
\* The clock stops at MaxTime.
MaxTime == 7
\* Number of searches made on the adapter.
MaxSearches == 4

\* The corpus docs.json answered to the fetch issued at time t.
Corpus(t) == [fetchedAt |-> t]

\* self.all_elements is None or
\* (datetime.now() - self.last_request_time) > timedelta(hours=1)  (line 125)
NeedsFetchAtWindow(cached, last, t) ==
    IF cached = None THEN TRUE ELSE (t - The(last)) >= TicksPerHour
NeedsFetch(cached, last, t) ==
    IF cached = None THEN TRUE ELSE (t - The(last)) > TicksPerHour

CacheIdle ==
    /\ now = 0
    /\ all_elements = None
    /\ last_request_time = None
    /\ lpc = "idle"
    /\ searchStart = None
    /\ searchOutcome = "none"
    /\ ranked = None
    /\ fetchCount = 0
    /\ searchCount = 0
    /\ lastFetchAt = None

\* __init__ (lines 49-51)
CacheStart ==
    /\ now = 0
    /\ all_elements = None
    /\ last_request_time = None
    /\ lpc = "idle"
    /\ searchStart = None
    /\ searchOutcome = "none"
    /\ ranked = None
    /\ fetchCount = 0
    /\ searchCount = 0
    /\ lastFetchAt = None

\* Time passes, between searches and while a fetch is awaited.
Tick ==
    /\ now < MaxTime
    /\ now' = now + 1
    /\ UNCHANGED <<all_elements, last_request_time, lpc, searchStart,
                   searchOutcome, ranked, fetchCount, searchCount, lastFetchAt>>
    /\ UNCHANGED otherThanCache

\* Lines 125-127 up to the await: the corpus is absent or stale, the time of
\* the request is stored and the fetch is issued.
SearchFetches ==
    /\ lpc = "idle"
    /\ searchCount < MaxSearches
    /\ NeedsFetch(all_elements, last_request_time, now)
    /\ last_request_time' = Some(now)
    /\ lpc' = "fetching"
    /\ searchStart' = Some(now)
    /\ searchOutcome' = "none"
    /\ fetchCount' = fetchCount + 1
    /\ searchCount' = searchCount + 1
    /\ lastFetchAt' = Some(now)
    /\ UNCHANGED <<now, all_elements, ranked>>
    /\ UNCHANGED otherThanCache

\* Lines 125 and 128-130: the corpus is cached and fresh, it is ranked and
\* the matches are returned.
SearchCached ==
    /\ lpc = "idle"
    /\ searchCount < MaxSearches
    /\ ~NeedsFetch(all_elements, last_request_time, now)
    /\ searchStart' = Some(now)
    /\ searchOutcome' = "returned"
    /\ ranked' = all_elements
    /\ searchCount' = searchCount + 1
    /\ UNCHANGED <<now, all_elements, last_request_time, lpc, fetchCount, lastFetchAt>>
    /\ UNCHANGED otherThanCache

\* Lines 102-122 and 127-130: _get_all_elements returns the corpus, it is
\* stored, ranked and the matches are returned.
FetchSucceeds ==
    /\ lpc = "fetching"
    /\ all_elements' = Some(Corpus(The(lastFetchAt)))
    /\ ranked' = Some(Corpus(The(lastFetchAt)))
    /\ searchOutcome' = "returned"
    /\ lpc' = "idle"
    /\ UNCHANGED <<now, last_request_time, searchStart, fetchCount, searchCount, lastFetchAt>>
    /\ UNCHANGED otherThanCache

\* Lines 103-106 raise (transport error, raise_for_status, missing key): the
\* exception leaves perform_search, self.all_elements is not assigned.
FetchFails ==
    /\ lpc = "fetching"
    /\ searchOutcome' = "raised"
    /\ lpc' = "idle"
    /\ UNCHANGED <<now, all_elements, last_request_time, searchStart, ranked,
                   fetchCount, searchCount, lastFetchAt>>
    /\ UNCHANGED otherThanCache

NextCache ==
    \/ Tick
    \/ SearchFetches
    \/ SearchCached
    \/ FetchSucceeds
    \/ FetchFails

(***************************************************************************)
(* prepare_element_for_display of the four adapters                        *)
(***************************************************************************)
\* Longest examples sequence a backend answers.
MaxExamples == 2

\* Provider instances: one of each adapter class, and a second Skript Hub and
\* a second skUnity provider (built with another token or key).
Instances == {"lang", "hub", "hub2", "unity", "unity2", "mc"}

ClassOf(P) ==
    CASE P = "lang" -> "SkriptLangDocumentationProvider"
      [] P \in {"hub", "hub2"} -> "SkriptHubDocumentationProvider"
      [] P \in {"unity", "unity2"} -> "SkUnityDocumentationProvider"
      [] P = "mc" -> "SkriptMcDocumentationProvider"

\* The name property of each class (lines 140, 220, 298, 386).
Name(P) ==
    CASE ClassOf(P) = "SkriptLangDocumentationProvider" -> "SkriptLang"
      [] ClassOf(P) = "SkriptHubDocumentationProvider" -> "Skript Hub"
      [] ClassOf(P) = "SkUnityDocumentationProvider" -> "skUnity"
      [] ClassOf(P) = "SkriptMcDocumentationProvider" -> "Skript-MC"

\* Sequences of example texts.
ExampleSeqs == SeqUpTo({"ex"}, MaxExamples)

\* The examples field _convert_element gives a new element: None for Skript
\* Hub and skUnity (lines 173, 255), None or one example for SkriptLang
\* (lines 58-62), the split example text for Skript-MC (line 351).
InitialExamples(P) ==
    CASE ClassOf(P) = "SkriptLangDocumentationProvider" -> {None, Some(<<"ex">>)}
      [] ClassOf(P) = "SkriptHubDocumentationProvider" -> {None}
      [] ClassOf(P) = "SkUnityDocumentationProvider" -> {None}
      [] ClassOf(P) = "SkriptMcDocumentationProvider" -> {Some(x) : x \in ExampleSeqs \ {<<>>}}

\* Number of prepare_element_for_display calls.
MaxCalls == 3

\* element.provider.name != self.name (lines 133, 201, 278, 379)
NoOwnershipCheck(P, e) == FALSE
OwnershipViolated(P, e) == Name(e.provider) # Name(P)

\* element.examples is None (lines 205, 282)
ExamplesFalsy(e) == e.examples = None \/ e.examples = Some(<<>>)
ExamplesMissing(e) == e.examples = None

\* The classes whose prepare_element_for_display fetches the examples.
Fetching(P) ==
    ClassOf(P) \in {"SkriptHubDocumentationProvider", "SkUnityDocumentationProvider"}

\* What the examples request can do: raise (transport error or
\* raise_for_status), answer examples, or, for skUnity, answer a list as
\* "result" (lines 289-290).
Responses(P) ==
    {[kind |-> "error"]}
    \cup {[kind |-> "examples", examples |-> x] : x \in ExampleSeqs}
    \cup (IF ClassOf(P) = "SkUnityDocumentationProvider" THEN {[kind |-> "list"]} ELSE {})

Call(P, e, outcome, n, after) ==
    Some([by |-> P, owner |-> e.provider, before |-> e.examples, after |-> after,
     outcome |-> outcome, requests |-> n])

EnrichIdle ==
    /\ element = [provider |-> "lang", examples |-> None]
    /\ requests = 0
    /\ calls = 0
    /\ lastCall = None

\* An element converted by any of the providers.
EnrichStart ==
    /\ \E P \in Instances : \E x \in InitialExamples(P) :
        element = [provider |-> P, examples |-> x]
    /\ requests = 0
    /\ calls = 0
    /\ lastCall = None

\* Lines 133-136, 201-204, 278-281, 379-382: the names differ, ValueError.
PrepareRaisesValueError(P) ==
    /\ calls < MaxCalls
    /\ OwnershipViolated(P, element)
    /\ lastCall' = Call(P, element, "ValueError", 0, element.examples)
    /\ calls' = calls + 1
    /\ UNCHANGED <<element, requests>>
    /\ UNCHANGED otherThanEnrich

\* The names agree and nothing is fetched: the class fetches no examples
\* (lines 132-136, 378-382) or the examples are there (lines 205, 282).
PrepareNoRequest(P) ==
    /\ calls < MaxCalls
    /\ ~OwnershipViolated(P, element)
    /\ ~(Fetching(P) /\ ExamplesMissing(element))
    /\ lastCall' = Call(P, element, "returned", 0, element.examples)
    /\ calls' = calls + 1
    /\ UNCHANGED <<element, requests>>
    /\ UNCHANGED otherThanEnrich

\* Lines 205-216 and 282-294: the examples are requested; the request
\* raises, or answers a list (skUnity: return, examples left unset), or
\* answers the examples, which are stored.
PrepareRequests(P) ==
    /\ calls < MaxCalls
    /\ ~OwnershipViolated(P, element)
    /\ Fetching(P) /\ ExamplesMissing(element)
    /\ requests' = requests + 1
    /\ calls' = calls + 1
    /\ \E r \in Responses(P) :
        CASE r.kind = "error" ->
                /\ lastCall' = Call(P, element, "HTTPError", 1, element.examples)
                /\ UNCHANGED element
          [] r.kind = "list" ->
                /\ lastCall' = Call(P, element, "returned", 1, element.examples)
                /\ UNCHANGED element
          [] r.kind = "examples" ->
                /\ lastCall' = Call(P, element, "returned", 1, Some(r.examples))
                /\ element' = [element EXCEPT !.examples = Some(r.examples)]
    /\ UNCHANGED otherThanEnrich

NextEnrich ==
    \/ \E P \in Instances : PrepareRaisesValueError(P)
    \/ \E P \in Instances : PrepareNoRequest(P)
    \/ \E P \in Instances : PrepareRequests(P)

(***************************************************************************)
(* SkriptMcDocumentationProvider.perform_search                            *)
(***************************************************************************)
\* Longest corpus self.syntaxes.
MaxCorpus == 2

\* Strings are sequences of characters.
Str_a == <<"a">>
Str_b == <<"b">>
Str_A == <<"A">>
Str_ab == <<"a", "b">>
Str_ba == <<"b", "a">>
Str_a_b == <<"a", " ", "(", "b", ")">>
Str_b_a == <<"b", " ", "(", "a", ")">>
Str_B_ab == <<"B", " ", "(", "a", "b", ")">>
Str_a_empty == <<"a", " ", "(", ")">>

\* Element names of the corpus: without a parenthetical, and with a
\* trailing one.
ElementNames == {Str_a, Str_ab, Str_ba, Str_a_b, Str_b_a, Str_B_ab, Str_a_empty}

\* Queries, the empty one included.
Queries == {<<>>, Str_a, Str_b, Str_A, Str_ab}

\* str.lower() on one character
LowerChar(c) == CASE c = "A" -> "a" [] c = "B" -> "b" [] OTHER -> c
\* str.lower()
Lower(s) == [i \in 1..Len(s) |-> LowerChar(s[i])]

\* Levenshtein.distance(s, t): insertions, deletions and substitutions.
distance(s, t) ==
    LET D[i \in 0..Len(s), j \in 0..Len(t)] ==
            IF i = 0 THEN j
            ELSE IF j = 0 THEN i
            ELSE Min(Min(D[i-1, j] + 1, D[i, j-1] + 1),
                     D[i-1, j-1] + (IF s[i] = t[j] THEN 0 ELSE 1))
    IN D[Len(s), Len(t)]

\* Positions i at which the pattern's " \(" can match with a ")" after it and
\* a non-empty englishName before it.
OpenPositions(name) ==
    {i \in 2..(Len(name) - 2) :
        /\ name[i] = " "
        /\ name[i+1] = "("
        /\ \E j \in (i+2)..Len(name) : name[j] = ")"}

SetMax(S) == CHOOSE x \in S : \A y \in S : y <= x
SetMin(S) == CHOOSE x \in S : \A y \in S : x <= y

\* re.match(r"(?P<englishName>.+) \((?P<frenchName>.*?)\)", name) (line 368):
\* None, or the two groups. The greedy .+ takes the last " (" that a ")"
\* follows, the lazy .*? stops at the first ")" after it.
NameMatch(name) ==
    IF OpenPositions(name) = {} THEN None
    ELSE LET i == SetMax(OpenPositions(name))
             j == SetMin({k \in (i+2)..Len(name) : name[k] = ")"})
         IN Some([englishName |-> SubSeq(name, 1, i - 1),
                  frenchName |-> SubSeq(name, i + 2, j - 1)])

\* levenshteinDistance (lines 367-372)
levenshteinDistance(name, q) ==
    LET name_match == NameMatch(name)
        english_name == IF name_match # None THEN The(name_match).englishName ELSE <<>>
        french_name == IF name_match # None THEN The(name_match).frenchName ELSE <<>>
    IN Min(distance(Lower(english_name), Lower(q)),
           distance(Lower(french_name), Lower(q)))

\* min(self.syntaxes, key=levenshteinDistance, default=None) (line 374): the
\* first element of least key, None for an empty corpus.
BestMatch(corpus, q) ==
    IF corpus = <<>> THEN None
    ELSE Some(SetMin({i \in 1..Len(corpus) :
            \A k \in 1..Len(corpus) :
                levenshteinDistance(corpus[i], q) <= levenshteinDistance(corpus[k], q)}))

McIdle ==
    /\ syntaxes = <<>>
    /\ query = <<>>
    /\ mpc = "idle"
    /\ best = None

\* A provider with any corpus (lines 307-311) is asked any query.
McStart ==
    /\ syntaxes \in SeqUpTo(ElementNames, MaxCorpus)
    /\ query \in Queries
    /\ mpc = "call"
    /\ best = None

\* Lines 364-365: the query is empty.
SearchEmptyQuery ==
    /\ mpc = "call"
    /\ query = <<>>
    /\ best' = Some(<<>>)
    /\ mpc' = "done"
    /\ UNCHANGED <<syntaxes, query>>
    /\ UNCHANGED otherThanMc

\* Lines 367-376: the element of least levenshteinDistance, if there is one.
SearchNearest ==
    /\ mpc = "call"
    /\ query # <<>>
    /\ best' = Some(IF BestMatch(syntaxes, query) # None
                     THEN <<The(BestMatch(syntaxes, query))>> ELSE <<>>)
    /\ mpc' = "done"
    /\ UNCHANGED <<syntaxes, query>>
    /\ UNCHANGED otherThanMc

NextMc ==
    \/ SearchEmptyQuery
    \/ SearchNearest

(***************************************************************************)
(* The specifications                                                      *)
(***************************************************************************)
InitCombined == CombinedStart /\ CacheIdle /\ EnrichIdle /\ McIdle
SpecCombined == InitCombined /\ [][NextCombined]_vars

InitCache == CacheStart /\ CombinedIdle /\ EnrichIdle /\ McIdle
SpecCache == InitCache /\ [][NextCache]_vars

InitEnrich == EnrichStart /\ CombinedIdle /\ CacheIdle /\ McIdle
SpecEnrich == InitEnrich /\ [][NextEnrich]_vars

InitMc == McStart /\ CombinedIdle /\ CacheIdle /\ EnrichIdle
SpecMc == InitMc /\ [][NextMc]_vars

(***************************************************************************)
(* Properties of CombinedDocumentationProvider.perform_search               *)
(***************************************************************************)
NoDuplicateKey(s) ==
    \A i, j \in 1..Len(s) : s[i].detailed_name = s[j].detailed_name => i = j

IsPrefix(s, t) == Len(s) <= Len(t) /\ s = SubSeq(t, 1, Len(s))

\* C1: whatever each member does (returns a sequence or raises), the combined
\* perform_search does not raise; a member that raised contributes no
\* element; every key returned by a member that succeeded is in the
\* accumulator, of which the returned sequence is a prefix; and when no
\* member succeeded the returned sequence is empty.
C1_MemberFailureTolerated ==
    /\ cpc # "raised"
    /\ \A i \in 1..Len(elements) : elements[i].member \in succeeded
    /\ cpc = "done" =>
        /\ returned # None
        /\ logged = invoked \ succeeded
        /\ KeysOf(merged) \subseteq KeysOf(elements)
        /\ IsPrefix(The(returned), elements)
        /\ \A i \in 1..Len(The(returned)) : The(returned)[i].member \in succeeded
        /\ (succeeded = {} => returned = Some(<<>>))

\* A member raised, and a member after it succeeded and has an element in
\* the returned sequence.
C1_Witness ==
    /\ cpc = "done"
    /\ \E m \in logged : \E i \in 1..Len(The(returned)) : The(returned)[i].member > m

\* C2: the returned sequence has at most MAX_SELECT_OPTION_COUNT - 1
\* elements.
C2_LengthBelowMax ==
    cpc = "done" => Len(The(returned)) <= MAX_SELECT_OPTION_COUNT - 1

\* One member alone returned more distinct elements than the maximum, and the
\* returned sequence has MAX_SELECT_OPTION_COUNT - 1 of them.
C2_Witness ==
    /\ cpc = "done"
    /\ invoked = {1}
    /\ Len(elements) > MAX_SELECT_OPTION_COUNT
    /\ Len(The(returned)) = MAX_SELECT_OPTION_COUNT - 1

\* C3: at every step the accumulator holds no two elements with the same
\* detailed_name, and neither does the returned sequence.
C3_NoDuplicateDetailedName ==
    /\ NoDuplicateKey(elements)
    /\ KeysOf(elements) = discovered_elements
    /\ returned # None => NoDuplicateKey(The(returned))

\* A member's results have been folded that repeat a key among themselves
\* and repeat a key of an earlier member.
C3_Witness ==
    /\ cpc = "fold"
    /\ resultIdx > Len(results)
    /\ \E p, q \in 1..Len(results) :
        p < q /\ results[p].detailed_name = results[q].detailed_name
    /\ \E p \in 1..Len(results) : \E i \in 1..Len(elements) :
        /\ elements[i].detailed_name = results[p].detailed_name
        /\ elements[i].member < provider

\* Elements of s that come before position (m, p) in reading order.
ReadBefore(s, m, p) ==
    SelectSeq(s, LAMBDA e : e.member < m \/ (e.member = m /\ e.pos < p))

\* C4: deduplication is first-claim. Between members the accumulator is the
\* sequence of first occurrences of each key, in member order and then in the
\* member's own order; while a member is folded it is that sequence up to the
\* result being read; of two results of one member with the same key the
\* earlier is the one retained; and the returned sequence is a prefix of it.
C4_FirstClaim ==
    /\ cpc \in {"loop", "done"} => elements = merged
    /\ cpc = "fold" => elements = ReadBefore(merged, provider, resultIdx)
    /\ cpc = "fold" =>
        \A i \in 1..Len(elements) : \A p \in 1..(resultIdx - 1) :
            elements[i].detailed_name = results[p].detailed_name =>
                \/ elements[i].member < provider
                \/ elements[i].member = provider /\ elements[i].pos <= p
    /\ cpc = "done" => IsPrefix(The(returned), merged)

\* Two members succeeded, the later one repeated a key of the earlier one and
\* also brought a new key, and both members have elements in the accumulator.
C4_Witness ==
    /\ cpc = "fold"
    /\ resultIdx > Len(results)
    /\ provider > 1
    /\ \E p \in 1..Len(results) : \E i \in 1..Len(elements) :
        /\ elements[i].detailed_name = results[p].detailed_name
        /\ elements[i].member < provider
    /\ \E i \in 1..Len(elements) : elements[i].member = provider

\* C5: the cap is evaluated before each member is invoked. A member is
\* invoked only when it is the next one in list order and fewer than
\* MAX_SELECT_OPTION_COUNT elements are accumulated; once the count has
\* reached the maximum no member is invoked any more.
C5_CapBeforeInvoke ==
    [][/\ invoked' # invoked =>
            /\ Len(elements) < MAX_SELECT_OPTION_COUNT
            /\ invoked = 1..(provider - 1)
            /\ invoked' = 1..provider
       /\ Len(elements) >= MAX_SELECT_OPTION_COUNT =>
            /\ invoked' = invoked
            /\ Len(elements') >= MAX_SELECT_OPTION_COUNT]_vars

\* The search returned with the cap reached and a member never invoked.
C5_Witness ==
    /\ cpc = "done"
    /\ Len(elements) >= MAX_SELECT_OPTION_COUNT
    /\ invoked # {}
    /\ Cardinality(invoked) < providers

(***************************************************************************)
(* Properties of the cached corpus of SkriptLangDocumentationProvider      *)
(***************************************************************************)
\* C6: in a sequence of searches that do not overlap, a search issues a
\* corpus fetch exactly when no corpus is cached or more than one hour has
\* passed since the last fetch was issued, and then issues one; every other
\* search issues none, returns, and ranks the cached corpus; and no fetch is
\* issued but by a starting search.
C6_FetchWhenAbsentOrStale ==
    [][/\ searchCount' # searchCount =>
            /\ fetchCount' - fetchCount =
                 (IF all_elements = None \/ now - The(lastFetchAt) > TicksPerHour
                  THEN 1 ELSE 0)
            /\ fetchCount' = fetchCount =>
                 /\ searchOutcome' = "returned"
                 /\ ranked' = all_elements
                 /\ all_elements' = all_elements
       /\ searchCount' = searchCount => fetchCount' = fetchCount]_vars

\* Three searches: one fetched, one within the window of that fetch ranked
\* the cached corpus, and one after the window fetched again, so that the
\* corpus cached now is that of a fetch issued more than an hour after the
\* adapter was built.
C6_Witness ==
    /\ searchCount = 3
    /\ fetchCount = 2
    /\ lpc = "idle"
    /\ searchOutcome = "returned"
    /\ \E c \in all_elements : c.fetchedAt > TicksPerHour

\* C10: every search that returns has ranked a corpus whose fetch was issued
\* no more than one hour before the search started.
C10_RankedCorpusWithinWindow ==
    searchOutcome = "returned" =>
        \A c \in ranked : \A t \in searchStart : t - c.fetchedAt <= TicksPerHour

(***************************************************************************)
(* Properties of prepare_element_for_display                               *)
(***************************************************************************)
\* C7, as claimed: a call by a provider that is another instance than the
\* element's provider fails with the ownership error, issues no backend
\* request and leaves the element as it was.
C7_OtherInstanceRejected ==
    [][\A c \in lastCall' :
        (calls' # calls /\ c.by # element.provider) =>
            /\ c.outcome = "ValueError"
            /\ requests' = requests
            /\ element' = element]_vars

\* C7, amended: a call by a provider whose name differs from the name of the
\* element's provider fails with the ownership error, issues no backend
\* request and leaves the element as it was.
C7_OtherNameRejected ==
    [][\A c \in lastCall' :
        (calls' # calls /\ Name(c.by) # Name(element.provider)) =>
            /\ c.outcome = "ValueError"
            /\ requests' = requests
            /\ element' = element]_vars

\* A provider of a class that fetches examples was called on an element of a
\* provider of another name whose examples are absent, and raised ValueError.
C7_Witness ==
    \E c \in lastCall :
        /\ Name(c.by) # Name(c.owner)
        /\ Fetching(c.by)
        /\ c.before = None
        /\ c.outcome = "ValueError"
        /\ element.examples = None

\* C8: a call made while examples is populated, be it with an empty
\* sequence, issues no backend request and leaves examples as it is; examples
\* changes only from absent to a sequence.
C8_EnrichmentIdempotent ==
    [][/\ (calls' # calls /\ element.examples # None) =>
            /\ requests' = requests
            /\ element' = element
       /\ element'.examples # element.examples =>
            /\ element.examples = None
            /\ element'.examples # None
            /\ requests' = requests + 1]_vars

\* The owning provider was called again on its element, whose examples an
\* earlier call had populated with the empty sequence, and returned.
C8_Witness ==
    /\ calls >= 2
    /\ requests = 1
    /\ \E c \in lastCall :
        /\ c.by = c.owner
        /\ c.before = Some(<<>>)
        /\ c.after = Some(<<>>)
        /\ c.outcome = "returned"

(***************************************************************************)
(* Properties of SkriptMcDocumentationProvider.perform_search               *)
(***************************************************************************)
\* Position of the " (" that opens the trailing parenthetical of name, if
\* name ends with one.
TrailingOpen(name) ==
    IF Len(name) >= 4 /\ name[Len(name)] = ")"
    THEN {i \in 2..(Len(name) - 2) :
            /\ name[i] = " " /\ name[i+1] = "("
            /\ \A k \in (i+2)..(Len(name) - 1) : name[k] \notin {"(", ")"}}
    ELSE {}

\* The distance of the claim: to the name without its trailing parenthetical
\* or to the alternate name in it, whichever is nearer; to the whole name
\* when there is no parenthetical.
NearestDistance(name, q) ==
    IF TrailingOpen(name) = {}
    THEN distance(Lower(name), Lower(q))
    ELSE LET i == The(TrailingOpen(name))
         IN Min(distance(Lower(SubSeq(name, 1, i - 1)), Lower(q)),
                distance(Lower(SubSeq(name, i + 2, Len(name) - 1)), Lower(q)))

\* C9: for a non-empty query and a non-empty corpus the search returns one
\* element, of least distance over the corpus; for an empty query it returns
\* nothing.
C9_NearestNeighbour ==
    mpc = "done" =>
        IF query = <<>> THEN best = Some(<<>>)
        ELSE syntaxes # <<>> =>
            \E b \in 1..Len(syntaxes) :
                /\ best = Some(<<b>>)
                /\ \A k \in 1..Len(syntaxes) :
                    NearestDistance(syntaxes[b], query) <= NearestDistance(syntaxes[k], query)

====
